---- MODULE Spec2Model ----
(***************************************************************************)
(* nodejs-info: nodeinfo(req, options) renders one HTML page describing    *)
(* the package, the host, the process and the inbound request.             *)
(*                                                                         *)
(* Representation.  A JavaScript string is a sequence of text tokens; a    *)
(* token is one special character ("<", "=", ";", " ", ...), one percent   *)
(* escape ("%3C") or a run of ordinary characters ("example.com").         *)
(* Concatenation is \o.  The JavaScript value undefined is the one-token   *)
(* sequence <<"">>, which no text holds (a text token is never empty).     *)
(* A JavaScript object used as a mapping is a sequence of <<key, value>>   *)
(* pairs with distinct keys, in property order; a key is a string, or a    *)
(* number for an integer-index key.                                        *)
(***************************************************************************)
EXTENDS Integers, Sequences, FiniteSets, TLC

VARIABLES
    req,          \* the request object the caller holds (mutable, aliased by context.request)
    options,      \* the options argument the caller passes
    process,      \* own properties that exist on the runtime's global process object
    packageJson,  \* module-level snapshot of ../../package.json (null when unreadable)
    os,           \* what the host reports: cpus, totalmem, freemem, hostname
    calls,        \* number of nodeinfo calls made so far on req
    reqBefore,    \* req as it was when the latest call started
    html,         \* outcome of the latest call: a page, or the exception it raised
    prevHtml      \* outcome of the call before that

vars == <<req, options, process, packageJson, os, calls, reqBefore, html, prevHtml>>

-----------------------------------------------------------------------------
(* Bounds of the model *)

MaxCookies == 2     \* name=value pairs in a cookie header
MaxCpus == 3        \* CPUs the host reports
MaxMem == 4         \* total memory, in bytes
MaxCalls == 2       \* nodeinfo calls on one request object

-----------------------------------------------------------------------------
(* JavaScript values *)

undefined == <<"">>

\* ToBoolean on a string-or-undefined value: undefined and the empty string are falsy.
Truthy(v) == v # undefined /\ v # <<>>

\* a || b
OrElse(a, b) == IF Truthy(a) THEN a ELSE b

\* String(v) as string concatenation and template literals apply it.
Str(v) == IF v = undefined THEN <<"undefined">> ELSE v

\* Object.keys(o)
Keys(o) == [i \in 1..Len(o) |-> o[i][1]]

Has(o, k) == \E i \in 1..Len(o) : o[i][1] = k

\* o[k]: undefined when o has no property k
Get(o, k) == IF Has(o, k) THEN o[CHOOSE i \in 1..Len(o) : o[i][1] = k][2] ELSE undefined

\* o[k] = v: an existing property keeps its place, a new one goes last
Put(o, k, v) ==
    IF Has(o, k) THEN [i \in 1..Len(o) |-> IF o[i][1] = k THEN <<k, v>> ELSE o[i]]
    ELSE Append(o, <<k, v>>)

\* o[k] = v for an integer-index key k: V8 keeps such keys in ascending order
RECURSIVE PutIndex(_, _, _)
PutIndex(o, k, v) ==
    IF o = <<>> THEN <<<<k, v>>>>
    ELSE IF o[1][1] = k THEN <<<<k, v>>>> \o Tail(o)
    ELSE IF o[1][1] > k THEN <<<<k, v>>>> \o o
    ELSE <<o[1]>> \o PutIndex(Tail(o), k, v)

\* delete o[k]
RECURSIVE Delete(_, _)
Delete(o, k) ==
    IF o = <<>> THEN <<>>
    ELSE IF o[1][1] = k THEN Delete(Tail(o), k)
    ELSE <<o[1]>> \o Delete(Tail(o), k)

\* arr.join(sep), arr a sequence of strings
RECURSIVE Join(_, _)
Join(arr, sep) ==
    IF arr = <<>> THEN <<>>
    ELSE IF Len(arr) = 1 THEN arr[1]
    ELSE arr[1] \o sep \o Join(Tail(arr), sep)

-----------------------------------------------------------------------------
(* handlebars: {{expr}} escapes, {{{expr}}} does not *)

\* The characters handlebars replaces.  (It also replaces the grave accent, by
\* &#x60;; the token alphabet of this model holds no grave accent.)
EscapeToken(t) ==
    CASE t = "&" -> "&amp;"
      [] t = "<" -> "&lt;"
      [] t = ">" -> "&gt;"
      [] t = "\"" -> "&quot;"
      [] t = "'" -> "&#x27;"
      [] t = "=" -> "&#x3D;"
      [] OTHER -> t

\* Handlebars.Utils.escapeExpression on a string
escapeExpression(s) == [i \in 1..Len(s) |-> EscapeToken(s[i])]

MustacheRaw(v) == IF v = undefined THEN <<>> ELSE v

\* {{expr}}: undefined renders as the empty string, anything else escaped
Mustache(v) == IF v = undefined THEN <<>> ELSE escapeExpression(v)

\* {{{expr}}}: undefined renders as the empty string, anything else verbatim
TripleStash(v) == IF v = undefined THEN <<>> ELSE v

\* {{#each obj}} <tr><th>{{@key}}</th><td>{{this}}</td></tr> {{/each}}
EachRow(o) == [i \in 1..Len(o) |-> <<Mustache(o[i][1]), Mustache(o[i][2])>>]

-----------------------------------------------------------------------------
(* cookie.parse(str) *)

\* index of the first token t in s, 0 when there is none
IndexOf(s, t) ==
    IF \E i \in 1..Len(s) : s[i] = t
    THEN CHOOSE i \in 1..Len(s) : s[i] = t /\ \A j \in 1..(i - 1) : s[j] # t
    ELSE 0

\* str.split(';')
RECURSIVE Split(_)
Split(s) ==
    LET i == IndexOf(s, ";")
    IN  IF i = 0 THEN <<s>>
        ELSE <<SubSeq(s, 1, i - 1)>> \o Split(SubSeq(s, i + 1, Len(s)))

\* str.trim()
RECURSIVE Trim(_)
Trim(s) ==
    IF s = <<>> THEN s
    ELSE IF s[1] = " " THEN Trim(Tail(s))
    ELSE IF s[Len(s)] = " " THEN Trim(SubSeq(s, 1, Len(s) - 1))
    ELSE s

DecodeToken(t) ==
    CASE t = "%3C" -> "<"
      [] t = "%3E" -> ">"
      [] t = "%26" -> "&"
      [] OTHER -> t

\* decodeURIComponent
decode(s) == [i \in 1..Len(s) |-> DecodeToken(s[i])]

\* one step of cookie.parse's loop: a pair without '=' is skipped, and a
\* name already seen keeps its first value
ParsePair(obj, pair) ==
    LET eq  == IndexOf(pair, "=")
        key == Trim(SubSeq(pair, 1, eq - 1))
        val == Trim(SubSeq(pair, eq + 1, Len(pair)))
    IN  IF eq = 0 THEN obj
        ELSE IF Has(obj, key) THEN obj
        ELSE Append(obj, <<key, decode(val)>>)

RECURSIVE ParsePairs(_, _)
ParsePairs(obj, pairs) ==
    IF pairs = <<>> THEN obj ELSE ParsePairs(ParsePair(obj, pairs[1]), Tail(pairs))

\* cookie.parse(str): the header's name=value pairs as a mapping
cookieParse(str) == ParsePairs(<<>>, Split(str))

-----------------------------------------------------------------------------
(* Host facts and their formatting (nodeinfo, lines 135-156) *)

\* prettysize(n) for a size below 1 kB, the only sizes the bounds produce
prettysize(n) == <<ToString(n), " ", "Bytes">>

\* Math.round(free/total*100) as the template prints it.  0/0 is NaN and x/0
\* is Infinity in IEEE arithmetic, and Math.round keeps both; otherwise
\* Math.round rounds half up.  The quotient is taken exactly here: the
\* rounding error of the double division is not modelled.
freemempercent(free, total) ==
    IF total = 0 THEN (IF free = 0 THEN <<"NaN">> ELSE <<"Infinity">>)
    ELSE <<ToString((200 * free + total) \div (2 * total))>>

\* (obj[key] || 0)
CountOf(obj, key) == IF Has(obj, key) THEN Get(obj, key) ELSE 0

CpuStepOverwriting(acc, mW, mR, sW, sR) ==
    [model |-> Put(acc.model, mW, 1), speed |-> PutIndex(acc.speed, sW, 1)]

\* One iteration of the loop of lines 148-151.  Each of lines 149 and 150
\* reads os.cpus()[c] twice: once for the key written (mW, sW) and once for
\* the key whose count is read (mR, sR).
CpuStep(acc, mW, mR, sW, sR) ==
    [model |-> Put(acc.model, mW, CountOf(acc.model, mR) + 1),
     speed |-> PutIndex(acc.speed, sW, CountOf(acc.speed, sR) + 1)]

\* The loop of lines 148-151 from index c on, the host's CPU list held fixed
RECURSIVE CpuLoop(_, _, _)
CpuLoop(list, c, acc) ==
    IF c > Len(list) THEN acc
    ELSE CpuLoop(list, c + 1,
                 CpuStep(acc, list[c].model, list[c].model, list[c].speed, list[c].speed))

\* const cpus = { model: {}, speed: {} } after the loop
cpus(list) == CpuLoop(list, 1, [model |-> <<>>, speed |-> <<>>])

\* lines 152-156: context.os.cpus.model and context.os.cpus.speed
cpuModel(list) ==
    LET m == cpus(list).model
    IN  Join([i \in 1..Len(m) |-> <<ToString(m[i][2]), " × ">> \o m[i][1]], <<", ">>)

cpuSpeed(list) ==
    LET sp == cpus(list).speed
    IN  Join([i \in 1..Len(sp) |-> <<ToString(sp[i][2]), " × ", ToString(sp[i][1])>>],
             <<", ">>) \o <<" MHz">>

\* The loop of lines 148-151 when the speeds the host reports change from one
\* os.cpus() call to the next (CPU frequency scaling), the number of CPUs and
\* their models staying the same.  Line 150 calls os.cpus() twice in iteration
\* c: reads[c][1] is the speed the first call reports (the key assigned to) and
\* reads[c][2] the speed the second reports (the key whose count is read).
RECURSIVE CpuLoopRereading(_, _, _, _)
CpuLoopRereading(list, reads, c, acc) ==
    IF c > Len(list) THEN acc
    ELSE CpuLoopRereading(list, reads, c + 1,
                          CpuStep(acc, list[c].model, list[c].model,
                                  reads[c][1], reads[c][2]))

\* lines 152-156: context.os.cpus.speed after that loop
cpuSpeedRereading(list, reads) ==
    LET sp == CpuLoopRereading(list, reads, 1, [model |-> <<>>, speed |-> <<>>]).speed
    IN  Join([i \in 1..Len(sp) |-> <<ToString(sp[i][2]), " × ", ToString(sp[i][1])>>],
             <<", ">>) \o <<" MHz">>

\* The OS rows of the template (lines 55-65) that the model keeps; uptime,
\* load average, type, platform and release are left out.
osRows(o) ==
    <<  <<"hostname", Mustache(o.hostname)>>,
        <<"cpu models", Mustache(cpuModel(o.cpus))>>,
        <<"cpu speeds", Mustache(cpuSpeed(o.cpus))>>,
        <<"total memory", Mustache(prettysize(o.totalmem))>>,
        <<"free memory", Mustache(prettysize(o.freemem))>>,
        <<"free memory percent", Mustache(freemempercent(o.freemem, o.totalmem))>>  >>

-----------------------------------------------------------------------------
(* Package metadata (lines 16-17, 129-133, 44-54) *)

null == [present |-> FALSE, name |-> undefined, description |-> undefined,
         version |-> undefined, hasDependencies |-> FALSE, dependencies |-> <<>>]

\* context.package: a shallow copy of packageJson whose dependencies mapping
\* is replaced by the comma-joined list of its keys.  An empty mapping is
\* truthy, so it is converted too (to the empty string).
contextPackage(pkg) ==
    [present |-> pkg.present, name |-> pkg.name, description |-> pkg.description,
     version |-> pkg.version,
     dependencies |-> IF pkg.present /\ pkg.hasDependencies
                      THEN Join(Keys(pkg.dependencies), <<", ">>)
                      ELSE undefined]

\* What the module-level packageJson holds after a call: the conversion is
\* made on the copy, so the snapshot is what it was.
packageJsonAfter(pkg) == pkg

packageRows(p) ==
    IF ~p.present THEN <<>>
    ELSE <<<<"name", Mustache(p.name)>>>>
         \o (IF Truthy(p.description) THEN <<<<"description", Mustache(p.description)>>>> ELSE <<>>)
         \o <<<<"version", Mustache(p.version)>>>>
         \o (IF Truthy(p.dependencies) THEN <<<<"dependencies", Mustache(p.dependencies)>>>> ELSE <<>>)

-----------------------------------------------------------------------------
(* The process object (lines 158-163) *)

\* context.process = process makes context.process the global object itself,
\* so the three assignments create (or overwrite) own properties of it.
processAfter(proc, mu) ==
    Put(Put(Put(proc, <<"rss">>, prettysize(mu.rss)),
            <<"heapTotal">>, prettysize(mu.heapTotal)),
        <<"heapUsed">>, prettysize(mu.heapUsed))

processRows(proc) ==
    <<  <<"version", Mustache(Get(proc, <<"version">>))>>,
        <<"resident set size", Mustache(Get(proc, <<"rss">>))>>,
        <<"v8 heap total", Mustache(Get(proc, <<"heapTotal">>))>>,
        <<"v8 heap used", Mustache(Get(proc, <<"heapUsed">>))>>  >>

-----------------------------------------------------------------------------
(* The request (lines 168-184) *)

\* const opt = Object.assign({ style: '' }, options); context.styleOverride = opt.style
\* (a style property of options replaces the default even when it is undefined)
styleOverride(opts) ==
    IF opts.kind = "object" /\ opts.hasStyle THEN opts.style ELSE <<>>

protocolIgnoringForwarded(r) == IF r.socket.encrypted THEN <<"https">> ELSE <<"http">>

\* line 169: == binds tighter than ||, and || tighter than ?:
protocol(r) ==
    IF r.socket.encrypted \/ Get(r.headers, <<"x-forwarded-proto">>) = <<"https">>
    THEN <<"https">> ELSE <<"http">>

\* line 172
href(r) == protocol(r) \o <<"://">> \o Str(Get(r.headers, <<"host">>)) \o Str(r.url)

\* lines 173-175 raise a TypeError when both req.connection.remoteAddress and
\* req.socket.remoteAddress are falsy and req.connection has no socket
remoteAddrThrows(r) ==
    /\ ~Truthy(r.connection.remoteAddress)
    /\ ~Truthy(r.socket.remoteAddress)
    /\ ~r.connection.socket.present

\* lines 173-175
remoteAddr(r) ==
    OrElse(r.connection.remoteAddress,
           OrElse(r.socket.remoteAddress, r.connection.socket.remoteAddress))

\* lines 176-178
ipAddr(r) ==
    LET xff == Get(r.headers, <<"x-forwarded-for">>)
    IN  IF Truthy(xff) THEN xff \o <<" via ">> \o Str(remoteAddr(r)) ELSE remoteAddr(r)

\* line 182
cookies(r) ==
    LET c == Get(r.headers, <<"cookie">>)
    IN  IF Truthy(c) THEN cookieParse(c) ELSE <<>>

attachKeepingCookieHeader(r) ==
    [r EXCEPT !.own = @ \cup {"ip_addr", "cookies"},
              !.ip_addr = ipAddr(r),
              !.cookies = cookies(r)]

\* lines 179-183: context.request is req itself, so the assignments and the
\* delete act on the caller's object
attach(r) ==
    [r EXCEPT !.own = @ \cup {"ip_addr", "cookies"},
              !.ip_addr = ipAddr(r),
              !.cookies = cookies(r),
              !.headers = Delete(r.headers, <<"cookie">>)]

-----------------------------------------------------------------------------
(* The template (lines 20-110) *)

TypeError(line) == [kind |-> "TypeError", line |-> line]

\* {{#if request}} ... {{else}} No request object supplied {{/if}}.  The
\* original-url row needs request.showOriginalUrl, which nothing sets.
requestBlock(ctx) ==
    IF ctx.hasRequest
    THEN [supplied |-> TRUE,
          rows |-> << <<"method", Mustache(ctx.request.method)>>,
                      <<"href", Mustache(ctx.request.href)>>,
                      <<"remote ip", Mustache(ctx.request.ip_addr)>> >>,
          headers |-> EachRow(ctx.request.headers),
          cookies |-> EachRow(ctx.request.cookies)]
    ELSE [supplied |-> FALSE, rows |-> <<>>, headers |-> <<>>, cookies |-> <<>>]

template(ctx) ==
    [kind |-> "html",
     styleOverride |-> TripleStash(ctx.styleOverride),
     package |-> packageRows(ctx.package),
     os |-> osRows(ctx.os),
     process |-> processRows(ctx.process),
     request |-> requestBlock(ctx)]

-----------------------------------------------------------------------------
(* nodeinfo(req, options) (lines 121-190) *)

\* The call's outcome: what it returns or raises, and what it leaves in the
\* caller's request object and in the global process object.
nodeinfoResult(r, opts, proc, pkg, o) ==
    LET proc2 == processAfter(proc, o.memoryUsage)
        ctx(hasReq, rq) ==
            [styleOverride |-> styleOverride(opts), package |-> contextPackage(pkg),
             os |-> o, process |-> proc2, hasRequest |-> hasReq, request |-> rq]
        r1 == [r EXCEPT !.own = @ \cup {"href"}, !.href = href(r)]
        r2 == attach(r1)
    IN  IF r.kind = "undefined"       \* line 168: req.headers of undefined
        THEN [html |-> TypeError(168), req |-> r, process |-> proc2]
        ELSE IF ~r.hasHeaders         \* line 168: no headers, no request block
        THEN [html |-> template(ctx(FALSE, r)), req |-> r, process |-> proc2]
        ELSE IF ~r.socket.present     \* line 169: req.socket.encrypted
        THEN [html |-> TypeError(169), req |-> r, process |-> proc2]
        ELSE IF ~r.connection.present \* line 173: req.connection.remoteAddress
        THEN [html |-> TypeError(173), req |-> r1, process |-> proc2]
        ELSE IF remoteAddrThrows(r)   \* line 175: req.connection.socket.remoteAddress
        THEN [html |-> TypeError(175), req |-> r1, process |-> proc2]
        ELSE [html |-> template(ctx(TRUE, r2)), req |-> r2, process |-> proc2]

nodeinfo ==
    /\ calls < MaxCalls
    /\ LET res == nodeinfoResult(req, options, process, packageJson, os)
       IN  /\ req' = res.req
           /\ process' = res.process
           /\ html' = res.html
    /\ packageJson' = packageJsonAfter(packageJson)
    /\ prevHtml' = html
    /\ reqBefore' = req
    /\ calls' = calls + 1
    /\ UNCHANGED <<options, os>>

-----------------------------------------------------------------------------
(* Inputs *)

\* Sequences over S of length at most n
SeqUpTo(S, n) == UNION {[1..k -> S] : k \in 0..n}

CookieNames == {<<"a">>, <<"b">>}
CookieValues == {<<"1">>, <<"%3C">>}
CookiePairs == {<<n, v>> : n \in CookieNames, v \in CookieValues}

\* The cookie header made of the name=value pairs ps: 'a=1; b=2'
CookieHeader(ps) ==
    Join([i \in 1..Len(ps) |-> ps[i][1] \o <<"=">> \o ps[i][2]], <<";", " ">>)

\* A cookie header: absent, or made of at most MaxCookies pairs
CookieHeaders == {undefined} \cup {CookieHeader(ps) : ps \in SeqUpTo(CookiePairs, MaxCookies)}

\* http.IncomingMessage.headers with the given values; undefined leaves the header out
Headers(host, ua, xfp, xff, cookie) ==
    LET h(k, v) == IF v = undefined THEN <<>> ELSE <<<<k, v>>>>
    IN  h(<<"host">>, host) \o h(<<"user-agent">>, ua) \o h(<<"x-forwarded-proto">>, xfp)
        \o h(<<"x-forwarded-for">>, xff) \o h(<<"cookie">>, cookie)

NoSocket == [present |-> FALSE, encrypted |-> FALSE, remoteAddress |-> undefined]
Sockets ==
    {NoSocket} \cup
    {[present |-> TRUE, encrypted |-> e, remoteAddress |-> a] :
        e \in BOOLEAN, a \in {undefined, <<"10.0.0.2">>}}

NoInner == [present |-> FALSE, remoteAddress |-> undefined]
Inners == {NoInner} \cup
          {[present |-> TRUE, remoteAddress |-> a] : a \in {undefined, <<"10.0.0.3">>}}

NoConnection == [present |-> FALSE, remoteAddress |-> undefined, socket |-> NoInner]
Connections ==
    {NoConnection} \cup
    {[present |-> TRUE, remoteAddress |-> a, socket |-> i] :
        a \in {undefined, <<"10.0.0.1">>}, i \in Inners}

PlainSocket == [present |-> TRUE, encrypted |-> FALSE, remoteAddress |-> <<"10.0.0.2">>]
PlainConnection == [present |-> TRUE, remoteAddress |-> <<"10.0.0.1">>, socket |-> NoInner]

\* A request object as the caller supplies it: nodeinfo has attached nothing yet
Request(hdrs, sock, conn) ==
    [kind |-> "object", method |-> <<"GET">>, url |-> <<"/info", "?", "q", "=", "1">>,
     hasHeaders |-> TRUE, headers |-> hdrs, socket |-> sock, connection |-> conn,
     own |-> {}, href |-> undefined, ip_addr |-> undefined, cookies |-> <<>>]

\* nodeinfo() and nodeinfo(undefined)
NoRequest ==
    [kind |-> "undefined", method |-> undefined, url |-> undefined,
     hasHeaders |-> FALSE, headers |-> <<>>, socket |-> NoSocket, connection |-> NoConnection,
     own |-> {}, href |-> undefined, ip_addr |-> undefined, cookies |-> <<>>]

\* nodeinfo({}): an object that is no request
EmptyObject == [NoRequest EXCEPT !.kind = "object"]

\* Requests that vary in their headers, over one plain transport
HeaderRequests ==
    {Request(Headers(host, ua, undefined, xff, cookie), PlainSocket, PlainConnection) :
        host \in {undefined, <<"example.com">>},
        ua \in {undefined, <<"<", "script", ">">>},
        xff \in {undefined, <<"192.0.2.7">>},
        cookie \in CookieHeaders}

\* Requests that vary in their transport and in the proxy's headers
TransportRequests ==
    {Request(Headers(<<"example.com">>, undefined, xfp, xff, undefined), sock, conn) :
        xfp \in {undefined, <<"http">>, <<"https">>, <<"ftp">>},
        xff \in {undefined, <<"192.0.2.7">>},
        sock \in Sockets, conn \in Connections}

Requests == {NoRequest, EmptyObject} \cup HeaderRequests \cup TransportRequests

Options ==
    {[kind |-> "undefined", hasStyle |-> FALSE, style |-> <<>>],
     [kind |-> "object", hasStyle |-> FALSE, style |-> <<>>],
     [kind |-> "object", hasStyle |-> TRUE, style |-> undefined],
     [kind |-> "object", hasStyle |-> TRUE,
      style |-> <<"td", ">", "a", "{", "color:red", "}">>]}

Packages ==
    {null,
     [present |-> TRUE, name |-> <<"app">>, description |-> undefined,
      version |-> <<"1.0.0">>, hasDependencies |-> FALSE, dependencies |-> <<>>],
     [present |-> TRUE, name |-> <<"app">>, description |-> <<"fast ", "&", " small">>,
      version |-> <<"1.0.0">>, hasDependencies |-> TRUE,
      dependencies |-> << <<<<"cookie">>, <<"^0.4.0">>>>, <<<<"handlebars">>, <<"^4.0.0">>>> >>]}

CpuKinds == {[model |-> m, speed |-> sp] : m \in {<<"X">>, <<"Y">>}, sp \in {2400, 3000}}

Host(cpuList, total, free) ==
    [hostname |-> <<"host1">>, cpus |-> cpuList, totalmem |-> total, freemem |-> free,
     memoryUsage |-> [rss |-> MaxMem, heapTotal |-> MaxMem, heapUsed |-> 0]]

Hosts ==
    {Host(l, total, free) :
        l \in SeqUpTo(CpuKinds, MaxCpus),
        total \in 0..MaxMem, free \in 0..MaxMem}

\* The global process object before any call: it has no rss, heapTotal or
\* heapUsed property of its own (they are fields of process.memoryUsage())
Process0 == << <<<<"version">>, <<"v12.18.0">>>> >>

NoCall == [kind |-> "none"]

-----------------------------------------------------------------------------
(* Specifications *)

InitCommon ==
    /\ process = Process0
    /\ calls = 0
    /\ reqBefore = req
    /\ html = NoCall
    /\ prevHtml = NoCall

\* Every request and every options argument, on one host
Init ==
    /\ req \in Requests
    /\ options \in Options
    /\ packageJson \in Packages
    /\ os = Host(<<[model |-> <<"X">>, speed |-> 2400], [model |-> <<"X">>, speed |-> 2400]>>,
                 MaxMem, 1)
    /\ InitCommon

\* Every host, for a call without a usable request and a call with one
InitHost ==
    /\ req \in {EmptyObject,
                Request(Headers(<<"example.com">>, undefined, undefined, undefined, undefined),
                        PlainSocket, PlainConnection)}
    /\ options \in {o \in Options : o.kind = "undefined"}
    /\ packageJson = null
    /\ os \in {h \in Hosts : h.freemem <= h.totalmem}
    /\ InitCommon

Next == nodeinfo

Spec == Init /\ [][Next]_vars

SpecHost == InitHost /\ [][Next]_vars

\* The speeds a CPU may report at any one os.cpus() call
SpeedValues == {k.speed : k \in CpuKinds}

\* A call during which the host's CPU speeds change: os is what the host
\* reported when the call started (line 138), and each later os.cpus() call of
\* line 150 reports any speed.  Everything else is as in nodeinfo.
nodeinfoRereading ==
    /\ calls < MaxCalls
    /\ LET res == nodeinfoResult(req, options, process, packageJson, os)
       IN  /\ req' = res.req
           /\ process' = res.process
           /\ IF res.html.kind = "html"
              THEN \E reads \in [1..Len(os.cpus) -> SpeedValues \X SpeedValues] :
                      html' = [res.html EXCEPT !.os[3] =
                                  <<"cpu speeds",
                                    Mustache(cpuSpeedRereading(os.cpus, reads))>>]
              ELSE html' = res.html
    /\ packageJson' = packageJsonAfter(packageJson)
    /\ prevHtml' = html
    /\ reqBefore' = req
    /\ calls' = calls + 1
    /\ UNCHANGED <<options, os>>

\* Every CPU list, for calls during which the reported speeds change
InitRereading ==
    /\ req \in {EmptyObject,
                Request(Headers(<<"example.com">>, undefined, undefined, undefined, undefined),
                        PlainSocket, PlainConnection)}
    /\ options \in {o \in Options : o.kind = "undefined"}
    /\ packageJson = null
    /\ os \in {Host(l, MaxMem, 1) : l \in SeqUpTo(CpuKinds, MaxCpus)}
    /\ InitCommon

NextRereading == nodeinfoRereading

SpecRereading == InitRereading /\ [][NextRereading]_vars

-----------------------------------------------------------------------------
(* Properties *)

\* The latest call was made with a request it could render
Rendered == calls > 0 /\ html.kind = "html"
RenderedRequest == Rendered /\ html.request.supplied

\* The value a template row shows under the given label
RowValue(rows, label) == rows[CHOOSE i \in 1..Len(rows) : rows[i][1] = label][2]

\* C1: a call without a request object raises nothing and returns a page
\* holding the 'No request object supplied' block and no request-derived row.
C1_NoRequestGivesFallbackPage ==
    (calls > 0 /\ reqBefore.kind = "undefined") =>
        /\ html.kind = "html"
        /\ ~html.request.supplied
        /\ html.request.rows = <<>>
        /\ html.request.headers = <<>>
        /\ html.request.cookies = <<>>

\* The name=value pairs the request's cookie header is made of
PairsOf(r) ==
    CHOOSE ps \in SeqUpTo(CookiePairs, MaxCookies) :
        CookieHeader(ps) = Get(r.headers, <<"cookie">>)

\* A cookie value as its row shows it: URL-decoded, then HTML-escaped
Shown(v) == IF v = <<"%3C">> THEN <<"&lt;">> ELSE v

\* The header rows are the request's headers without the cookie header
HeaderRowsOmitCookie ==
    LET rows == html.request.headers
        hdrs == reqBefore.headers
        kept == {i \in 1..Len(hdrs) : hdrs[i][1] # <<"cookie">>}
    IN  /\ Len(rows) = Cardinality(kept)
        /\ \A k \in 1..Len(rows) : rows[k][1] # <<"cookie">>
        /\ \A i \in kept : \E k \in 1..Len(rows) :
              rows[k] = <<hdrs[i][1], Mustache(hdrs[i][2])>>

HasCookieHeader == RenderedRequest /\ Has(reqBefore.headers, <<"cookie">>)

\* C2, as stated: a request with a cookie header gets one cookie row per
\* name=value pair (the name with its decoded value), and its header rows are
\* its headers without the cookie header.
C2_OneCookieRowPerPair ==
    HasCookieHeader =>
        LET ps == PairsOf(reqBefore)
            rows == html.request.cookies
        IN  /\ Len(rows) = Len(ps)
            /\ \A i \in 1..Len(ps) : rows[i] = <<ps[i][1], Shown(ps[i][2])>>
            /\ HeaderRowsOmitCookie

\* C2, amended: a request with a cookie header gets one cookie row per
\* distinct cookie name, showing the decoded value of the first pair with that
\* name, and its header rows are its headers without the cookie header.
C2_OneCookieRowPerName ==
    HasCookieHeader =>
        LET ps == PairsOf(reqBefore)
            rows == html.request.cookies
            first == {i \in 1..Len(ps) : \A j \in 1..(i - 1) : ps[j][1] # ps[i][1]}
        IN  /\ Len(rows) = Cardinality(first)
            /\ \A i \in first : \E k \in 1..Len(rows) :
                  rows[k] = <<ps[i][1], Shown(ps[i][2])>>
            /\ HeaderRowsOmitCookie

C2_Witness ==
    /\ HasCookieHeader
    /\ PairsOf(reqBefore) = << <<<<"a">>, <<"1">>>>, <<<<"a">>, <<"%3C">>>> >>
    /\ html.request.cookies = << <<<<"a">>, <<"1">>>> >>
    /\ Len(html.request.headers) = Len(reqBefore.headers) - 1

\* The characters that must not reach the page unescaped
RawSpecial == {"&", "<", ">", "\"", "'", "="}
NoRaw(s) == \A i \in 1..Len(s) : s[i] \notin RawSpecial
AllEscaped(rows) == \A k \in 1..Len(rows) : NoRaw(rows[k][2])

\* C3: every interpolated value of a page except options.style is
\* HTML-escaped ('<script>' in a header shows as '&lt;script&gt;'), and
\* options.style is in the page verbatim, empty when it was not supplied.
C3_EscapedExceptStyle ==
    Rendered =>
        /\ AllEscaped(html.package) /\ AllEscaped(html.os) /\ AllEscaped(html.process)
        /\ AllEscaped(html.request.rows)
        /\ \A k \in 1..Len(html.request.headers) :
              NoRaw(html.request.headers[k][1]) /\ NoRaw(html.request.headers[k][2])
        /\ \A k \in 1..Len(html.request.cookies) :
              NoRaw(html.request.cookies[k][1]) /\ NoRaw(html.request.cookies[k][2])
        /\ (html.request.supplied
               /\ Get(reqBefore.headers, <<"user-agent">>) = <<"<", "script", ">">>)
           => \E k \in 1..Len(html.request.headers) :
                html.request.headers[k] = <<<<"user-agent">>, <<"&lt;", "script", "&gt;">>>>
        /\ html.styleOverride =
              (IF options.kind = "object" /\ options.hasStyle /\ options.style # undefined
               THEN options.style ELSE <<>>)

C3_Witness ==
    /\ RenderedRequest
    /\ Get(reqBefore.headers, <<"user-agent">>) = <<"<", "script", ">">>
    /\ \E k \in 1..Len(html.request.cookies) : html.request.cookies[k][2] = <<"&lt;">>
    /\ \E i \in 1..Len(html.styleOverride) : html.styleOverride[i] = ">"
    /\ \E k \in 1..Len(html.package) : html.package[k][2] = <<"fast ", "&amp;", " small">>

\* C4: two successive calls with the same request object and options, the
\* host unchanged, return the same page.
C4_SecondCallSamePage ==
    (calls >= 2 /\ html.kind = "html" /\ prevHtml.kind = "html") => html = prevHtml

\* C5: a call leaves the caller's request object as it was: the same
\* headers, and no href, ip_addr or cookies field attached.
C5_RequestUnchanged ==
    calls > 0 => (req = reqBefore /\ req.own = {})

\* The first available of req.connection.remoteAddress,
\* req.socket.remoteAddress and req.connection.socket.remoteAddress
PeerAddress(r) ==
    IF r.connection.present /\ Truthy(r.connection.remoteAddress)
    THEN r.connection.remoteAddress
    ELSE IF r.socket.present /\ Truthy(r.socket.remoteAddress)
    THEN r.socket.remoteAddress
    ELSE IF r.connection.present /\ r.connection.socket.present
            /\ Truthy(r.connection.socket.remoteAddress)
    THEN r.connection.socket.remoteAddress
    ELSE undefined

\* C6: the 'remote ip' row is '<x-forwarded-for> via <peer>' when both are
\* there, the peer address when there is no x-forwarded-for header, the
\* x-forwarded-for value when there is no peer address; and finding the peer
\* address raises nothing, whichever of its three levels are missing.
C6_RemoteIp ==
    (calls > 0 /\ reqBefore.kind = "object" /\ reqBefore.hasHeaders
        /\ reqBefore.socket.present) =>
        LET xff == Get(reqBefore.headers, <<"x-forwarded-for">>)
            peer == PeerAddress(reqBefore)
        IN  /\ html.kind = "html"
            /\ RowValue(html.request.rows, "remote ip") =
                  (IF Truthy(xff) /\ Truthy(peer) THEN xff \o <<" via ">> \o peer
                   ELSE IF Truthy(xff) THEN xff
                   ELSE IF Truthy(peer) THEN peer
                   ELSE <<>>)

\* C7: the 'href' row is scheme://<host header><req.url>, the scheme being
\* https when the transport is encrypted, else https when x-forwarded-proto
\* is 'https', else http.
C7_Href ==
    (RenderedRequest /\ Has(reqBefore.headers, <<"host">>)) =>
        LET xfp == Get(reqBefore.headers, <<"x-forwarded-proto">>)
            scheme == IF reqBefore.socket.encrypted THEN <<"https">>
                      ELSE IF xfp = <<"https">> THEN <<"https">>
                      ELSE <<"http">>
        IN  RowValue(html.request.rows, "href") =
                Mustache(scheme \o <<"://">> \o Get(reqBefore.headers, <<"host">>)
                         \o reqBefore.url)

C7_Witness ==
    /\ RenderedRequest
    /\ ~reqBefore.socket.encrypted
    /\ Get(reqBefore.headers, <<"x-forwarded-proto">>) = <<"https">>
    /\ RowValue(html.request.rows, "href")[1] = "https"

\* The one-to-one listings of a finite set
Orderings(S) ==
    {f \in [1..Cardinality(S) -> S] : \A i, j \in 1..Cardinality(S) : f[i] = f[j] => i = j}

RECURSIVE SumTo(_, _)
SumTo(f, n) == IF n = 0 THEN 0 ELSE f[n] + SumTo(f, n - 1)

\* C8: 'cpu models' has one '<count> × <model>' entry per distinct model and
\* 'cpu speeds' one '<count> × <speed>' entry per distinct speed, each count
\* the number of CPUs with that model or speed, the counts of each summary
\* adding up to the number of CPUs; entries are joined by ', ' and ' MHz'
\* ends the speed summary.
C8_CpuSummaries ==
    Rendered =>
        LET list == os.cpus
            models == {list[i].model : i \in 1..Len(list)}
            speeds == {list[i].speed : i \in 1..Len(list)}
            nModel(m) == Cardinality({i \in 1..Len(list) : list[i].model = m})
            nSpeed(sp) == Cardinality({i \in 1..Len(list) : list[i].speed = sp})
        IN  /\ \E f \in Orderings(models) :
                /\ RowValue(html.os, "cpu models") =
                      Join([i \in 1..Cardinality(models) |->
                                <<ToString(nModel(f[i])), " × ">> \o f[i]], <<", ">>)
                /\ SumTo([i \in 1..Cardinality(models) |-> nModel(f[i])],
                         Cardinality(models)) = Len(list)
            /\ \E f \in Orderings(speeds) :
                /\ RowValue(html.os, "cpu speeds") =
                      Join([i \in 1..Cardinality(speeds) |->
                                <<ToString(nSpeed(f[i])), " × ", ToString(f[i])>>], <<", ">>)
                      \o <<" MHz">>
                /\ SumTo([i \in 1..Cardinality(speeds) |-> nSpeed(f[i])],
                         Cardinality(speeds)) = Len(list)

C8_Witness ==
    /\ Rendered
    /\ Len(os.cpus) = MaxCpus
    /\ RowValue(html.os, "cpu models") = <<"2", " × ", "X", ", ", "1", " × ", "Y">>
    /\ Cardinality({os.cpus[i].speed : i \in 1..Len(os.cpus)}) = 2

\* C9: the free-memory percentage is an integer in 0..100, equal to
\* round(free/total*100), also when total memory is 0.
C9_FreeMemPercent ==
    Rendered =>
        \E n \in 0..100 :
            /\ RowValue(html.os, "free memory percent") = <<ToString(n)>>
            /\ os.totalmem > 0 =>
                  /\ 2 * os.totalmem * n <= 200 * os.freemem + os.totalmem
                  /\ 200 * os.freemem + os.totalmem < 2 * os.totalmem * (n + 1)

\* C10: calls change no process-wide state: the global process object gets
\* no rss, heapTotal or heapUsed field, and the package snapshot keeps its
\* dependency mapping.
C10_NoProcessWideChange ==
    /\ ~Has(process, <<"rss">>)
    /\ ~Has(process, <<"heapTotal">>)
    /\ ~Has(process, <<"heapUsed">>)
    /\ packageJson \in Packages

\* The number a count token of a summary stands for
CountValue(tok) == CHOOSE n \in 0..(2 * MaxCpus + 1) : ToString(n) = tok

\* C11: when the speeds the host reports change between the os.cpus() calls
\* of one nodeinfo call, the number of CPUs staying the same, the counts of
\* the speed summary still add up to the number of CPUs and every entry shows
\* a count accumulated under its own speed: the summary is the grouping of
\* some assignment of one speed to each CPU.
C11_SpeedCountsConsistent ==
    Rendered =>
        LET row == RowValue(html.os, "cpu speeds")
            n == Len(os.cpus)
            entries == Len(row) \div 4
        IN  /\ SumTo([k \in 1..entries |-> CountValue(row[4 * k - 3])], entries) = n
            /\ \E v \in [1..n -> SpeedValues] :
                  LET speeds == {v[i] : i \in 1..n}
                      nSpeed(sp) == Cardinality({i \in 1..n : v[i] = sp})
                  IN  \E f \in Orderings(speeds) :
                        row = Join([i \in 1..Cardinality(speeds) |->
                                      <<ToString(nSpeed(f[i])), " × ", ToString(f[i])>>],
                                   <<", ">>) \o <<" MHz">>

====
